---- MODULE Spec2Model ----
(***************************************************************************)
(* Model of the mailos LLM vendor abstraction and tool-execution engine    *)
(* (src/src/mailos/vendors): BaseLLM and its three adapters OpenAILLM,     *)
(* AnthropicLLM and BedrockAnthropicLLM.                                   *)
(*                                                                         *)
(* Encoding of values                                                      *)
(*  - a content block / message part is a record [type, text, id, name];   *)
(*    a text block carries its text, a tool_use block the call's id, name  *)
(*    and input (in text), a tool_result part the call id and the result   *)
(*    text.                                                                *)
(*  - a raw vendor response is [content, stop_reason].  For the OpenAI     *)
(*    adapter choices[0].message.content is the text block of content      *)
(*    (None when there is none), choices[0].message.tool_calls are its     *)
(*    tool_use blocks and choices[0].finish_reason is stop_reason.         *)
(*  - Python's None is the string "None" where a string is expected; an    *)
(*    optional list carries an explicit *_none flag.                       *)
(***************************************************************************)
EXTENDS Integers, Sequences, FiniteSets, TLC

\* ------------------------------------------------------------------ bounds
\* largest ceiling max_tool_calls the engine is constructed with
MaxCeiling == 2

\* largest number of rate-limit signals counted for one request; the
\* counters saturate there
MaxRateLimits == 2

\* ------------------------------------------------------------- value types
Adapters == {"openai", "anthropic", "bedrock"}

NoneStr == "None"

TextBlock(t) == [type |-> "text", text |-> t, id |-> 0, name |-> ""]

ToolUseBlock(i, n, inp) == [type |-> "tool_use", text |-> inp, id |-> i, name |-> n]

ToolResultPart(i, c) == [type |-> "tool_result", text |-> c, id |-> i, name |-> ""]

ImagePart(d) == [type |-> "image", text |-> d, id |-> 0, name |-> ""]

Content(t, d) == [type |-> t, data |-> d]

Message(r, c) == [role |-> r, content |-> c]

\* the conversations a caller passes to generate
Conversations ==
    { << Message("system", << Content("text", "You are a helpful assistant") >>),
         Message("user", << Content("text", "2+2?") >>) >>,
      << Message("user", << Content("text", "echo hi") >>) >> }

\* the tools a caller passes (Tool.name); the callable of each tool is
\* ToolFunction below
ToolLists == { << >>, << "echo", "fail", "hang" >> }

\* names a vendor response may ask for; "ghost" is never in available_tools
CallNames == {"echo", "fail", "hang", "ghost"}

\* what the callable of a tool does when invoked
ToolFunction(n) ==
    CASE n = "echo" -> "returns"
      [] n = "fail" -> "raises"
      [] n = "hang" -> "never_returns"
      [] OTHER -> "returns"

\* ----------------------------------------------------------- small helpers
Range(s) == { s[i] : i \in 1..Len(s) }

Map(s, Op(_)) == [ i \in 1..Len(s) |-> Op(s[i]) ]

RECURSIVE Flatten(_)
Flatten(ss) == IF ss = << >> THEN << >> ELSE Head(ss) \o Flatten(Tail(ss))

Last(s) == s[Len(s)]

IsTextContent(c) == c.type = "text"

IsSystem(m) == m.role = "system"

\* ------------------------------------------------------------ format_tools
\* all three adapters: [] when tools is empty/None, else one entry per tool
OpenAIFormatTools(tls) ==
    [ i \in 1..Len(tls) |-> [name |-> tls[i], schema |-> "parameters"] ]

AnthropicFormatTools(tls) ==
    [ i \in 1..Len(tls) |-> [name |-> tls[i], schema |-> "input_schema"] ]

BedrockFormatTools(tls) ==
    [ i \in 1..Len(tls) |-> [name |-> tls[i], schema |-> "input_schema"] ]

FormatTools(a, tls) ==
    CASE a = "openai" -> OpenAIFormatTools(tls)
      [] a = "anthropic" -> AnthropicFormatTools(tls)
      [] a = "bedrock" -> BedrockFormatTools(tls)

\* --------------------------------------------------------- format_messages
\* base64 of the bytes of an image (a conversion, not the identity)
B64(d) ==
    CASE d = "img_ok" -> "aW1nX29r"
      [] d = "img_bad" -> "aW1nX2JhZA=="
      [] OTHER -> d

\* BedrockAnthropicLLM._process_image: raises ValueError for an image it
\* cannot validate
ProcessImageRaises(d) == d # "img_ok"

\* OpenAI: the url of an image part; raw bytes are base64-encoded and wrapped
\* in a data: url, a data: or http url is passed through
DataUrl(d) ==
    CASE d = "img_ok" -> "data:image/jpeg;base64,aW1nX29r"
      [] d = "img_bad" -> "data:image/jpeg;base64,aW1nX2JhZA=="
      [] OTHER -> d

\* OpenAI: text and image parts, every message kept, system stays a message
OpenAIContentList(m) ==
    LET kept == SelectSeq(m.content, LAMBDA c : c.type \in {"text", "image"})
    IN  [ i \in 1..Len(kept) |->
            IF kept[i].type = "text" THEN TextBlock(kept[i].data)
            ELSE ImagePart(DataUrl(kept[i].data)) ]

OpenAIFormatMessages(msgs) ==
    [ messages |-> [ i \in 1..Len(msgs) |->
                       [role |-> msgs[i].role, content |-> OpenAIContentList(msgs[i])] ],
      system |-> NoneStr ]

\* a system field taken from the last Text content of the System message
SystemOf_LastText(msgs) ==
    LET sys == SelectSeq(msgs, IsSystem)
    IN  IF sys = << >> THEN NoneStr
        ELSE LET txt == SelectSeq(Last(sys).content, IsTextContent)
             IN  IF txt = << >> THEN NoneStr ELSE Last(txt).data

\* the system field of the two Anthropic adapters: the first Text content of
\* the last System message, None without one
SystemOf(msgs) ==
    LET sys == SelectSeq(msgs, IsSystem)
    IN  IF sys = << >> THEN NoneStr
        ELSE LET txt == SelectSeq(Last(sys).content, IsTextContent)
             IN  IF txt = << >> THEN NoneStr ELSE txt[1].data

AnthropicContent(m) ==
    LET kept == SelectSeq(m.content, LAMBDA c : c.type \in {"text", "image"})
    IN  [ i \in 1..Len(kept) |->
            IF kept[i].type = "text" THEN TextBlock(kept[i].data)
            ELSE ImagePart(kept[i].data) ]

AnthropicFormatMessages(msgs) ==
    LET kept == SelectSeq(msgs, LAMBDA m : m.role \in {"user", "assistant"})
    IN  [ messages |-> [ i \in 1..Len(kept) |->
                           [role |-> kept[i].role, content |-> AnthropicContent(kept[i])] ],
          system |-> SystemOf(msgs) ]

BedrockContent(m) ==
    LET kept == SelectSeq(m.content,
                    LAMBDA c : \/ c.type = "text"
                               \/ c.type = "image" /\ ~ProcessImageRaises(c.data))
    IN  [ i \in 1..Len(kept) |->
            IF kept[i].type = "text" THEN TextBlock(kept[i].data)
            ELSE ImagePart(B64(kept[i].data)) ]

BedrockFormatMessages(msgs) ==
    LET kept == SelectSeq(msgs,
                    LAMBDA m : ~IsSystem(m) /\ BedrockContent(m) # << >>)
    IN  [ messages |-> [ i \in 1..Len(kept) |->
                           [role |-> kept[i].role, content |-> BedrockContent(kept[i])] ],
          system |-> SystemOf(msgs) ]

FormatMessages(a, msgs) ==
    CASE a = "openai" -> OpenAIFormatMessages(msgs)
      [] a = "anthropic" -> AnthropicFormatMessages(msgs)
      [] a = "bedrock" -> BedrockFormatMessages(msgs)

\* ------------------------------------------------------- raw responses
NoRaw == [content |-> << >>, stop_reason |-> "none"]

IsToolUse(b) == b.type = "tool_use"

IsText(b) == b.type = "text"

ToolCall(b) == [id |-> b.id, name |-> b.name, input |-> b.text]

\* OpenAI: response.choices[0].message.content (None without text)
MessageContent(raw) ==
    LET txt == SelectSeq(raw.content, IsText)
    IN  IF txt = << >> THEN NoneStr ELSE txt[1].text

\* OpenAI: response.choices[0].message.tool_calls
MessageToolCalls(raw) == SelectSeq(raw.content, IsToolUse)

\* ------------------------------------- extract_tool_calls / has_tool_calls
OpenAIExtractToolCalls(raw) == Map(MessageToolCalls(raw), ToolCall)

\* the Anthropic-direct adapter looks for blocks typed "tool_calls"
AnthropicExtractToolCalls(raw) ==
    Map(SelectSeq(raw.content, LAMBDA b : b.type = "tool_calls"), ToolCall)

BedrockExtractToolCalls(raw) == Map(SelectSeq(raw.content, IsToolUse), ToolCall)

ExtractToolCalls(a, raw) ==
    CASE a = "openai" -> OpenAIExtractToolCalls(raw)
      [] a = "anthropic" -> AnthropicExtractToolCalls(raw)
      [] a = "bedrock" -> BedrockExtractToolCalls(raw)

OpenAIHasToolCalls(raw) == MessageToolCalls(raw) # << >>

AnthropicHasToolCalls(raw) == \E i \in 1..Len(raw.content) : raw.content[i].type = "tool_calls"

BedrockHasToolCalls(raw) == raw.stop_reason = "tool_use"

HasToolCalls(a, raw) ==
    CASE a = "openai" -> OpenAIHasToolCalls(raw)
      [] a = "anthropic" -> AnthropicHasToolCalls(raw)
      [] a = "bedrock" -> BedrockHasToolCalls(raw)

\* --------------------------------------------------------- create_response
LLMResponse(c, fr, tcs, tcsNone) ==
    [kind |-> "response", content |-> c, finish_reason |-> fr,
     tool_calls |-> tcs, tool_calls_none |-> tcsNone]

NoResult ==
    [kind |-> "none", content |-> << >>, finish_reason |-> "",
     tool_calls |-> << >>, tool_calls_none |-> TRUE]

\* the lazy sequence returned for stream=true: one LLMResponse per text chunk
\* of the raw streaming response (its chunks are the blocks of raw.content)
StreamResponse(raw) ==
    [kind |-> "stream",
     content |-> Map(SelectSeq(raw.content, IsText), LAMBDA b : b.text),
     finish_reason |-> "",
     tool_calls |-> << >>, tool_calls_none |-> TRUE]

\* the synthetic response of the bound check
MaxToolsExceeded ==
    [kind |-> "response",
     content |-> << "Error: Exceeded maximum number of tool calls" >>,
     finish_reason |-> "max_tools_exceeded",
     tool_calls |-> << >>, tool_calls_none |-> TRUE]

\* each returns [raises, resp]: raises is "none" or the exception's name
OpenAICreateResponse(raw, tcs, tcsNone) ==
    [raises |-> "none",
     resp |-> LLMResponse(
                IF MessageContent(raw) \notin {NoneStr, ""}
                    THEN << MessageContent(raw) >> ELSE << >>,
                raw.stop_reason,
                IF ~tcsNone /\ tcs # << >> THEN tcs ELSE OpenAIExtractToolCalls(raw),
                FALSE)]

AnthropicCreateResponse(raw, tcs, tcsNone) ==
    IF raw.content = << >> THEN [raises |-> "IndexError", resp |-> NoResult]
    ELSE IF raw.content[1].type # "text"
        THEN [raises |-> "AttributeError", resp |-> NoResult]
    ELSE [raises |-> "none",
          resp |-> LLMResponse(<< raw.content[1].text >>, raw.stop_reason, tcs, tcsNone)]

BedrockCreateResponse(raw, tcs, tcsNone) ==
    [raises |-> "none",
     resp |-> LLMResponse(Map(SelectSeq(raw.content, IsText), LAMBDA b : b.text),
                          raw.stop_reason, tcs, tcsNone)]

CreateResponse(a, raw, tcs, tcsNone) ==
    CASE a = "openai" -> OpenAICreateResponse(raw, tcs, tcsNone)
      [] a = "anthropic" -> AnthropicCreateResponse(raw, tcs, tcsNone)
      [] a = "bedrock" -> BedrockCreateResponse(raw, tcs, tcsNone)

\* ------------------------------------------------------------ _execute_tool
NotFoundMessage(n) ==
    CASE n = "ghost" -> "Error: Tool ghost not found"
      [] n = "echo" -> "Error: Tool echo not found"
      [] n = "fail" -> "Error: Tool fail not found"
      [] n = "hang" -> "Error: Tool hang not found"
      [] OTHER -> "Error: Tool not found"

\* f"Error executing {tool_name}: {str(e)}" for the exception of the tool
ExecutionErrorMessage(n) ==
    CASE n = "fail" -> "Error executing fail: boom"
      [] OTHER -> "Error executing tool: boom"

ToolResult(i, c, e) ==
    [type |-> "tool_result", tool_use_id |-> i, content |-> c, is_error |-> e]

\* _execute_tool without the lookup guard: an unknown name raises
ExecuteTool_UnknownRaises(call, available) ==
    IF call.name \notin Range(available)
        THEN [outcome |-> "raises",
              result |-> ToolResult(call.id, NotFoundMessage(call.name), TRUE)]
    ELSE CASE ToolFunction(call.name) = "returns" ->
                [outcome |-> "result", result |-> ToolResult(call.id, call.input, FALSE)]
           [] ToolFunction(call.name) = "raises" ->
                [outcome |-> "result",
                 result |-> ToolResult(call.id, ExecutionErrorMessage(call.name), TRUE)]
           [] OTHER ->
                [outcome |-> "pending", result |-> ToolResult(call.id, "", FALSE)]

\* _execute_tool without the try/except: the tool's exception propagates
ExecuteTool_ExceptionPropagates(call, available) ==
    IF call.name \notin Range(available)
        THEN [outcome |-> "result",
              result |-> ToolResult(call.id, NotFoundMessage(call.name), TRUE)]
    ELSE CASE ToolFunction(call.name) = "returns" ->
                [outcome |-> "result", result |-> ToolResult(call.id, call.input, FALSE)]
           [] ToolFunction(call.name) = "raises" ->
                [outcome |-> "raises",
                 result |-> ToolResult(call.id, ExecutionErrorMessage(call.name), TRUE)]
           [] OTHER ->
                [outcome |-> "pending", result |-> ToolResult(call.id, "", FALSE)]

\* outcome of _execute_tool(tool_call, available_tools): "result" with the
\* dict it returns, "raises" when an exception leaves it, "pending" when the
\* awaited call never completes
ExecuteTool(call, available) ==
    IF call.name \notin Range(available)
        THEN [outcome |-> "result",
              result |-> ToolResult(call.id, NotFoundMessage(call.name), TRUE)]
    ELSE CASE ToolFunction(call.name) = "returns" ->
                [outcome |-> "result", result |-> ToolResult(call.id, call.input, FALSE)]
           [] ToolFunction(call.name) = "raises" ->
                [outcome |-> "result",
                 result |-> ToolResult(call.id, ExecutionErrorMessage(call.name), TRUE)]
           [] OTHER ->
                [outcome |-> "pending", result |-> ToolResult(call.id, "", FALSE)]

\* ----------------------------------------------------- format_tool_results
NoPayload == [messages |-> << >>, system |-> NoneStr]

\* OpenAI: a fresh list holding the assistant message and one role:tool
\* message per result
OpenAIFormatToolResults(raw, results) ==
    LET assistant ==
            [role |-> "assistant",
             content |-> (IF MessageContent(raw) = NoneStr THEN << >>
                          ELSE << TextBlock(MessageContent(raw)) >>)
                         \o MessageToolCalls(raw)]
        toolMsg(r) == [role |-> "tool",
                       content |-> << ToolResultPart(r.tool_use_id, r.content) >>]
    IN  [raises |-> "none",
         payload |-> [messages |-> << assistant >> \o Map(results, toolMsg),
                      system |-> NoneStr]]

\* Anthropic-direct: reads raw_response.messages, which the SDK's response
\* object does not have
AnthropicFormatToolResults(raw, results) ==
    [raises |-> "AttributeError", payload |-> NoPayload]

\* Bedrock: raw_response.get("messages", []) is [] for a vendor response, then
\* the assistant turn and one user turn of tool_result blocks;
\* system is raw_response.get("system"), None for a vendor response
BedrockFormatToolResults(raw, results) ==
    LET block(r) == ToolResultPart(r.tool_use_id, r.content)
    IN  [raises |-> "none",
         payload |-> [messages |-> << [role |-> "assistant", content |-> raw.content],
                                      [role |-> "user", content |-> Map(results, block)] >>,
                      system |-> NoneStr]]

FormatToolResults(a, raw, results) ==
    CASE a = "openai" -> OpenAIFormatToolResults(raw, results)
      [] a = "anthropic" -> AnthropicFormatToolResults(raw, results)
      [] a = "bedrock" -> BedrockFormatToolResults(raw, results)

\* ------------------------------------------------------------- the vendor
\* the responses the vendor may give, before it stamps the call ids
VendorTemplates ==
    { [content |-> << TextBlock("hi") >>, stop_reason |-> "end_turn"],
      [content |-> << >>, stop_reason |-> "end_turn"],
      [content |-> << ToolUseBlock(0, "echo", "hi") >>, stop_reason |-> "tool_use"],
      [content |-> << TextBlock("hi"), ToolUseBlock(0, "fail", "x") >>,
       stop_reason |-> "tool_use"],
      [content |-> << ToolUseBlock(0, "ghost", "x"), ToolUseBlock(0, "echo", "hi") >>,
       stop_reason |-> "tool_use"],
      [content |-> << ToolUseBlock(0, "hang", "x") >>, stop_reason |-> "tool_use"] }

\* call ids are unique within a generate call: block i of the response to
\* request number n gets id 10 * n + i
StampIds(t, n) ==
    [t EXCEPT !.content =
        [ i \in 1..Len(t.content) |->
            IF t.content[i].type = "tool_use"
                THEN [t.content[i] EXCEPT !.id = 10 * n + i]
                ELSE t.content[i] ]]

\* ----------------------------------------------------------------- state
VARIABLES
    adapter,          \* which adapter class the engine instance is
    max_tool_calls,   \* self.max_tool_calls
    vendor_mode,      \* "normal", or "always_limited": every attempt is rate limited
    pc,               \* position of the generate call
    entry,            \* "generate" or "generate_sync"
    messages,         \* argument messages
    stream,           \* argument stream
    tools,            \* argument tools
    pending,          \* arguments of the _make_request in flight
    site,             \* caller of that _make_request: "generate" or "loop"
    raw_response,     \* raw_response / new_response
    tool_call_count,  \* tool_call_count of the current _process_response
    tool_calls,       \* tool_calls of the current _process_response
    tool_results,     \* tool_results of the current _process_response
    result,           \* value returned by the call
    exc,              \* exception raised by the call, "none" if none
    requests,         \* log: request bodies sent to the vendor, with attempts
    responses,        \* log: raw responses received
    executed,         \* log: ids of the tool calls given to _execute_tool
    rounds            \* log: completed tool rounds [raw, calls, results]

\* state of the format_messages / create_response harness (FmtSpec)
VARIABLES
    fmt_pc,           \* "input", "formatted", "parsed"
    fmt_adapter,      \* the adapter whose _format_messages is called
    fmt_msgs,         \* the messages passed to _format_messages
    fmt_out,          \* what _format_messages returned
    fmt_back          \* what _create_response made of the mock response

fmtvars == << fmt_pc, fmt_adapter, fmt_msgs, fmt_out, fmt_back >>

\* state of LLMFactory (FactorySpec)
VARIABLES
    providers,        \* LLMFactory._providers: name -> class, "unregistered" if absent
    registrations,    \* log: the register calls made, << name, class >>
    fac_call,         \* provider and kwargs of the last create call
    fac_result,       \* its outcome [raises, instance]
    constructed       \* log: classes whose constructor create has invoked

factory == << providers, registrations, fac_call, fac_result, constructed >>

\* state of one handle_email_reply call (ReplySpec)
VARIABLES
    reply_in,         \* checker_config and email_data, by what they contain
    reply_pc,         \* "off", "start", "init", "generate", "send", "returned", "raised"
    reply_ret,        \* value returned: "True", "False", "none" before the return
    reply_exc,        \* exception that left handle_email_reply, "none" if none
    llm_constructed,  \* adapters constructed by _initialize_llm
    llm_called,       \* generate_sync calls made
    emails_sent       \* messages handed over by send_email

reply == << reply_in, reply_pc, reply_ret, reply_exc, llm_constructed, llm_called,
            emails_sent >>

\* the instance attributes BaseLLM.__init__ sets besides max_tool_calls, and
\* the calls made on the instance one after the other (SessionSpec)
VARIABLES
    self_tools,       \* self.tools: names of the tools registered with register_tool
    self_history,     \* self.history
    self_model,       \* self.model
    self_config,      \* self.config
    calls,            \* generate calls that have ended on this instance
    earlier_tools     \* names of the tools passed to those earlier calls

instance == << self_tools, self_history, self_model, self_config >>

session == << instance, calls, earlier_tools >>

\* a second generate call on the same instance, interleaved with the first
\* (ConcSpec)
VARIABLES
    parked,           \* the locals of the call that is not running now
    running,          \* which of the two calls is running: 1 or 2
    interleaved       \* a call was suspended while both were in flight

conc == << parked, running, interleaved >>

\* state of the tool-call detection / format_tool_results harness (DetectSpec)
VARIABLES
    det_pc,           \* "off", "input", "detected", "formatted"
    det_adapter,      \* the adapter whose methods are called
    det_raw,          \* the raw response they are given
    det_has,          \* what _has_tool_calls returned
    det_calls,        \* what _extract_tool_calls returned
    det_results,      \* the tool results given to _format_tool_results
    det_payload       \* what _format_tool_results returned, [raises, payload]

detect == << det_pc, det_adapter, det_raw, det_has, det_calls, det_results,
             det_payload >>

\* the configuration file and two update_checker_field calls (ConfigSpec)
VARIABLES
    cfg_path,         \* inode the path of the configuration file names
    tmp_path,         \* inode the path of the ".tmp" file names, 0 when absent
    inodes,           \* inode -> [content, complete]: the updates the JSON in
                      \* the file holds, and whether the file is whole JSON
    flock,            \* inode -> the updater holding LOCK_EX on it, 0 if none
    up_pc,            \* updater -> its position
    up_config,        \* updater -> the config dict it loaded and changed
    up_fd,            \* updater -> the inode its open temp file is, 0 if none
    up_ret,           \* updater -> what update_checker_field returned
    rd_seen           \* what the reader's load_config calls found

cfgfile == << cfg_path, tmp_path, inodes, flock, up_pc, up_config, up_fd, up_ret, rd_seen >>

\* one checker's scheduled tasks and a run of execute_task (TaskSpec)
VARIABLES
    tasks,            \* checker["tasks"] in the configuration file
    task_ret,         \* what the last add_task / delete_task returned
    now,              \* datetime.now(), in minutes
    run_pc,           \* position of execute_task
    run_task,         \* the task dict execute_task was given
    run_in,           \* what the LLM and the sends of this run will do
    run_sent,         \* recipients tried so far
    run_success,      \* the local variable success
    run_ret           \* what execute_task returned

taskvars == << tasks, task_ret, now, run_pc, run_task, run_in, run_sent, run_success, run_ret >>

\* the monitored inbox and the polls of check_emails (MailSpec)
VARIABLES
    inbox,            \* message -> [there, seen]: delivered, flagged \Seen
    polls,            \* check_emails calls started so far
    poll_pc,          \* position of check_emails
    poll_ids,         \* email_ids still to go through in this poll
    attempts,         \* message -> handle_email_reply calls made for it
    failed            \* messages whose handle_email_reply returned False

mailvars == << inbox, polls, poll_pc, poll_ids, attempts, failed >>

\* the components outside the vendor package and the detection harness
outer == << detect, cfgfile, taskvars, mailvars >>

\* the variables of the other components, untouched by a generate call
aux == << fmtvars, factory, reply, session, conc, outer >>

engine == << adapter, max_tool_calls, vendor_mode, pc, entry, messages, stream,
             tools, pending, site, raw_response, tool_call_count, tool_calls,
             tool_results, result, exc, requests, responses, executed, rounds >>

vars == << engine, aux >>

\* what a step of the formatting harness / of the factory leaves alone
besides_fmt == << engine, factory, reply, session, conc, outer >>

besides_factory == << engine, fmtvars, reply, session, conc, outer >>

besides_reply == << engine, fmtvars, factory, session, conc, outer >>

besides_session == << fmtvars, factory, reply, conc, outer >>

besides_conc == << fmtvars, factory, reply, session, outer >>

besides_detect == << engine, fmtvars, factory, reply, session, conc, cfgfile, taskvars, mailvars >>

besides_cfgfile == << engine, fmtvars, factory, reply, session, conc, detect, taskvars, mailvars >>

besides_tasks == << engine, fmtvars, factory, reply, session, conc, detect, cfgfile, mailvars >>

besides_mail == << engine, fmtvars, factory, reply, session, conc, detect, cfgfile, taskvars >>

config == << adapter, max_tool_calls, vendor_mode >>

args == << entry, messages, stream, tools >>

NoArgs == [messages |-> << >>, system |-> NoneStr, tools |-> << >>, stream |-> FALSE]

\* no formatting harness running
FmtIdle ==
    /\ fmt_pc = "off"
    /\ fmt_adapter = "none"
    /\ fmt_msgs = << >>
    /\ fmt_out = [messages |-> << >>, system |-> NoneStr]
    /\ fmt_back = [raises |-> "none", resp |-> NoResult]

\* names a provider is registered or asked under; "unknown" is never registered
ProviderNames == {"openai", "anthropic", "bedrock-anthropic", "custom", "unknown"}

ProviderClasses == {"OpenAILLM", "AnthropicLLM", "BedrockAnthropicLLM"}

\* factory.py after import: the three default registrations
DefaultRegistrations ==
    << << "openai", "OpenAILLM" >>, << "anthropic", "AnthropicLLM" >>,
       << "bedrock-anthropic", "BedrockAnthropicLLM" >> >>

DefaultProviders ==
    [ n \in ProviderNames |->
        CASE n = "openai" -> "OpenAILLM"
          [] n = "anthropic" -> "AnthropicLLM"
          [] n = "bedrock-anthropic" -> "BedrockAnthropicLLM"
          [] OTHER -> "unregistered" ]

NoCall == [provider |-> "none", keys |-> {}]

NoInstance == [raises |-> "none", instance |-> "none"]

FactoryIdle ==
    /\ providers = DefaultProviders
    /\ registrations = DefaultRegistrations
    /\ fac_call = NoCall
    /\ fac_result = NoInstance
    /\ constructed = << >>

NoReplyInput ==
    [auto_reply |-> FALSE, fields |-> {}, provider |-> "none", keys |-> {},
     llm |-> "none", imap_server |-> FALSE, smtp |-> "none"]

ReplyIdle ==
    /\ reply_in = NoReplyInput
    /\ reply_pc = "off"
    /\ reply_ret = "none"
    /\ reply_exc = "none"
    /\ llm_constructed = 0
    /\ llm_called = 0
    /\ emails_sent = 0

\* BaseLLM.__init__: no tool registered, empty history, no call made yet
SessionIdle ==
    /\ self_tools = {}
    /\ self_history = << >>
    /\ self_model = "model"
    /\ self_config = "ModelConfig"
    /\ calls = 0
    /\ earlier_tools = {}

\* the locals of a call that has not started
IdleCall ==
    [pc |-> "idle", entry |-> "none", messages |-> << >>, stream |-> FALSE,
     tools |-> << >>, pending |-> NoArgs, site |-> "none", raw_response |-> NoRaw,
     tool_call_count |-> 0, tool_calls |-> << >>, tool_results |-> << >>,
     result |-> NoResult, exc |-> "none", requests |-> << >>, responses |-> << >>,
     executed |-> << >>, rounds |-> << >>]

ConcIdle ==
    /\ parked = IdleCall
    /\ running = 1
    /\ interleaved = FALSE

\* no detection harness running
DetectIdle ==
    /\ det_pc = "off"
    /\ det_adapter = "none"
    /\ det_raw = NoRaw
    /\ det_has = FALSE
    /\ det_calls = << >>
    /\ det_results = << >>
    /\ det_payload = [raises |-> "none", payload |-> NoPayload]

\* the updaters and the inodes a run may use
Updaters == {1, 2}

Inodes == 1..3

\* the reader has not called load_config
NoRead == [reads |-> 0, whole |-> TRUE, content |-> {}]

\* the configuration file exists and is whole; nobody is updating it
CfgFileIdle ==
    /\ cfg_path = 1
    /\ tmp_path = 0
    /\ inodes = [ n \in Inodes |-> [content |-> {}, complete |-> n = 1] ]
    /\ flock = [ n \in Inodes |-> 0 ]
    /\ up_pc = [ u \in Updaters |-> "off" ]
    /\ up_config = [ u \in Updaters |-> {} ]
    /\ up_fd = [ u \in Updaters |-> 0 ]
    /\ up_ret = [ u \in Updaters |-> "none" ]
    /\ rd_seen = NoRead

\* no task dict and no run inputs
NoTask == [id |-> 0, enabled |-> FALSE, last_run |-> 0]

NoRun == [llm |-> "none", sends |-> << >>]

\* the checker has no task yet and execute_task is not running; last_run 0
\* stands for None, so the clock starts at minute 1
TaskIdle ==
    /\ tasks = << >>
    /\ task_ret = "none"
    /\ now = 1
    /\ run_pc = "idle"
    /\ run_task = NoTask
    /\ run_in = NoRun
    /\ run_sent = 0
    /\ run_success = TRUE
    /\ run_ret = "none"

MaxMails == 2

Mails == 1..MaxMails

\* the inbox is empty and check_emails is not running
MailIdle ==
    /\ inbox = [ m \in Mails |-> [there |-> FALSE, seen |-> FALSE] ]
    /\ polls = 0
    /\ poll_pc = "idle"
    /\ poll_ids = << >>
    /\ attempts = [ m \in Mails |-> 0 ]
    /\ failed = {}

OuterIdle == DetectIdle /\ CfgFileIdle /\ TaskIdle /\ MailIdle

AuxIdle == FmtIdle /\ FactoryIdle /\ ReplyIdle /\ SessionIdle /\ ConcIdle /\ OuterIdle

\* an engine instance on which no call has been made
CallIdle ==
    /\ pc = "idle"
    /\ entry = "none"
    /\ messages = << >>
    /\ stream = FALSE
    /\ tools = << >>
    /\ pending = NoArgs
    /\ site = "none"
    /\ raw_response = NoRaw
    /\ tool_call_count = 0
    /\ tool_calls = << >>
    /\ tool_results = << >>
    /\ result = NoResult
    /\ exc = "none"
    /\ requests = << >>
    /\ responses = << >>
    /\ executed = << >>
    /\ rounds = << >>

Init ==
    /\ adapter \in Adapters
    /\ max_tool_calls \in 0..MaxCeiling
    /\ vendor_mode \in {"normal", "always_limited"}
    /\ CallIdle
    /\ AuxIdle

\* the engine of the specifications that make no generate call
EngineIdle ==
    /\ adapter = "openai"
    /\ max_tool_calls = 0
    /\ vendor_mode = "normal"
    /\ CallIdle

Terminated == pc \in {"done", "raised"}

\* ------------------------------------------------------------ request log
Bump(n, cap) == IF n < cap THEN n + 1 ELSE n

\* a first attempt of a request
Issue(log, a) == Append(log, [payload |-> a, attempts |-> 1, limited |-> 0])

\* a further attempt: counted on the entry when its body is the same
Reissue(log, a) ==
    IF Last(log).payload = a
        THEN [log EXCEPT ![Len(log)].attempts = Bump(@, MaxRateLimits + 1)]
        ELSE Issue(log, a)

NoteLimited(log) == [log EXCEPT ![Len(log)].limited = Bump(@, MaxRateLimits)]

\* a retry that rebuilds its messages and loses the last turn
RetryArguments_LosesLastTurn(a) ==
    [a EXCEPT !.messages = SubSeq(@, 1, Len(@) - 1)]

\* the arguments of the recursive _make_request after a rate limit
RetryArguments(a) == a

\* -------------------------------------------------------------- returning
Return(r) ==
    /\ pc' = "done"
    /\ result' = r
    /\ exc' = "none"

Raise(e) ==
    /\ pc' = "raised"
    /\ result' = NoResult
    /\ exc' = e

ReturnOrRaise(cr) == IF cr.raises = "none" THEN Return(cr.resp) ELSE Raise(cr.raises)

\* ------------------------------------------------------------------ actions
\* generate: formats messages and tools and issues the first request
StartGenerate(msgs, strm, tls) ==
    /\ pending' = [messages |-> FormatMessages(adapter, msgs).messages,
                   system |-> FormatMessages(adapter, msgs).system,
                   tools |-> FormatTools(adapter, tls),
                   stream |-> strm]
    /\ requests' = Issue(requests, pending')
    /\ site' = "generate"
    /\ pc' = "awaiting"
    /\ UNCHANGED << result, exc >>

\* a generate that keeps the tools it is given in self.tools
Generate_RegistersTools(msgs, strm, tls) ==
    /\ pc = "idle"
    /\ entry' = "generate"
    /\ messages' = msgs
    /\ stream' = strm
    /\ tools' = tls
    /\ StartGenerate(msgs, strm, tls)
    /\ self_tools' = self_tools \cup Range(tls)
    /\ UNCHANGED << fmtvars, factory, reply, conc, outer, self_history, self_model,
                    self_config, calls, earlier_tools >>
    /\ UNCHANGED << config, raw_response, tool_call_count, tool_calls,
                    tool_results, responses, executed, rounds >>

Generate(msgs, strm, tls) ==
    /\ pc = "idle"
    /\ entry' = "generate"
    /\ messages' = msgs
    /\ stream' = strm
    /\ tools' = tls
    /\ StartGenerate(msgs, strm, tls)
    /\ UNCHANGED << aux, config, raw_response, tool_call_count, tool_calls,
                    tool_results, responses, executed, rounds >>

\* generate_sync: AnthropicLLM rejects stream, OpenAILLM and BaseLLM pass it on
GenerateSync(msgs, strm, tls) ==
    /\ pc = "idle"
    /\ entry' = "generate_sync"
    /\ messages' = msgs
    /\ stream' = strm
    /\ tools' = tls
    /\ IF adapter = "anthropic" /\ strm
          THEN /\ Raise("ValueError")
               /\ UNCHANGED << pending, requests, site >>
          ELSE StartGenerate(msgs, strm, tls)
    /\ UNCHANGED << aux, config, raw_response, tool_call_count, tool_calls,
                    tool_results, responses, executed, rounds >>

\* the vendor answers the attempt in flight
VendorResponds(t) ==
    /\ pc = "awaiting"
    /\ vendor_mode = "normal"
    /\ raw_response' = StampIds(t, Len(requests))
    /\ responses' = Append(responses, raw_response')
    /\ pc' = "responded"
    /\ UNCHANGED << aux, config, args, pending, site, tool_call_count, tool_calls,
                    tool_results, result, exc, requests, executed, rounds >>

\* the vendor signals a rate limit for the attempt in flight: OpenAILLM
\* catches RateLimitError and awaits handle_rate_limit; the other two
\* adapters log and re-raise
VendorRateLimits ==
    /\ pc = "awaiting"
    /\ \/ vendor_mode = "always_limited"
       \/ Last(requests).limited < MaxRateLimits
    /\ requests' = NoteLimited(requests)
    /\ IF adapter = "openai"
          THEN pc' = "backoff" /\ UNCHANGED << result, exc >>
          ELSE Raise("RateLimitError")
    /\ UNCHANGED << aux, config, args, pending, site, raw_response, tool_call_count,
                    tool_calls, tool_results, responses, executed, rounds >>

\* OpenAILLM: handle_rate_limit has slept, _make_request calls itself
RetryRequest ==
    /\ pc = "backoff"
    /\ requests' = Reissue(requests, RetryArguments(pending))
    /\ pc' = "awaiting"
    /\ UNCHANGED << aux, config, args, pending, site, raw_response, tool_call_count,
                    tool_calls, tool_results, result, exc, responses, executed,
                    rounds >>

\* generate without the "if stream" return: a streamed response enters the
\* tool loop
AfterFirstRequest_NoStreamCheck ==
    /\ pc = "responded"
    /\ site = "generate"
    /\ pc' = "process"
    /\ tool_call_count' = 0
    /\ UNCHANGED << result, exc >>
    /\ UNCHANGED << aux, config, args, pending, site, raw_response, tool_calls,
                    tool_results, requests, responses, executed, rounds >>

\* generate, after its _make_request returned
AfterFirstRequest ==
    /\ pc = "responded"
    /\ site = "generate"
    /\ IF stream
          THEN /\ Return(StreamResponse(raw_response))
               /\ UNCHANGED tool_call_count
          ELSE IF adapter = "openai" /\ ~(tools # << >> /\ OpenAIHasToolCalls(raw_response))
          THEN /\ ReturnOrRaise(OpenAICreateResponse(raw_response, << >>, TRUE))
               /\ UNCHANGED tool_call_count
          ELSE /\ pc' = "process"
               /\ tool_call_count' = 0
               /\ UNCHANGED << result, exc >>
    /\ UNCHANGED << aux, config, args, pending, site, raw_response, tool_calls,
                    tool_results, requests, responses, executed, rounds >>

\* _process_response up to its tool loop: bound check, extraction
ProcessResponse ==
    /\ pc = "process"
    /\ IF tool_call_count >= max_tool_calls
          THEN /\ Return(MaxToolsExceeded)
               /\ UNCHANGED << tool_calls, tool_results >>
          ELSE IF ExtractToolCalls(adapter, raw_response) = << >>
          THEN /\ ReturnOrRaise(CreateResponse(adapter, raw_response, << >>, TRUE))
               /\ UNCHANGED << tool_calls, tool_results >>
          ELSE /\ tool_calls' = ExtractToolCalls(adapter, raw_response)
               /\ tool_results' = << >>
               /\ pc' = "exec"
               /\ UNCHANGED << result, exc >>
    /\ UNCHANGED << aux, config, args, pending, site, raw_response, tool_call_count,
                    requests, responses, executed, rounds >>

\* one iteration of the loop over tool_calls: await _execute_tool.  A callable
\* that never returns leaves the await pending for good: there is no timeout
\* around asyncio.to_thread, so nothing is enabled from "blocked"
RunTool ==
    /\ pc = "exec"
    /\ Len(tool_results) < Len(tool_calls)
    /\ LET call == tool_calls[Len(tool_results) + 1]
           out == ExecuteTool(call, tools)
       IN  /\ executed' = Append(executed, call.id)
           /\ CASE out.outcome = "result" ->
                     /\ tool_results' = Append(tool_results, out.result)
                     /\ UNCHANGED << pc, result, exc >>
                [] out.outcome = "raises" ->
                     /\ Raise("ToolError")
                     /\ UNCHANGED tool_results
                [] OTHER ->
                     /\ pc' = "blocked"
                     /\ UNCHANGED << tool_results, result, exc >>
    /\ UNCHANGED << aux, config, args, pending, site, raw_response, tool_call_count,
                    tool_calls, requests, responses, rounds >>

\* a re-request that does not wait for the loop over tool_calls to end
Rerequest_BeforeAllReturned ==
    /\ pc = "exec"
    /\ Len(tool_results) >= 1
    /\ LET fmt == FormatToolResults(adapter, raw_response, tool_results)
       IN  IF fmt.raises # "none"
              THEN /\ Raise(fmt.raises)
                   /\ UNCHANGED << pending, requests, site, rounds >>
              ELSE /\ pending' = [messages |-> fmt.payload.messages,
                                  system |-> fmt.payload.system,
                                  tools |-> FormatTools(adapter, tools),
                                  stream |-> FALSE]
                   /\ requests' = Issue(requests, pending')
                   /\ rounds' = Append(rounds, [raw |-> raw_response,
                                                calls |-> tool_calls,
                                                results |-> tool_results])
                   /\ site' = "loop"
                   /\ pc' = "awaiting"
                   /\ UNCHANGED << result, exc >>
    /\ UNCHANGED << aux, config, args, raw_response, tool_call_count, tool_calls,
                    tool_results, responses, executed >>

\* after the loop: format_tool_results, format_tools, the re-request
Rerequest ==
    /\ pc = "exec"
    /\ Len(tool_results) = Len(tool_calls)
    /\ LET fmt == FormatToolResults(adapter, raw_response, tool_results)
       IN  IF fmt.raises # "none"
              THEN /\ Raise(fmt.raises)
                   /\ UNCHANGED << pending, requests, site, rounds >>
              ELSE /\ pending' = [messages |-> fmt.payload.messages,
                                  system |-> fmt.payload.system,
                                  tools |-> FormatTools(adapter, tools),
                                  stream |-> FALSE]
                   /\ requests' = Issue(requests, pending')
                   /\ rounds' = Append(rounds, [raw |-> raw_response,
                                                calls |-> tool_calls,
                                                results |-> tool_results])
                   /\ site' = "loop"
                   /\ pc' = "awaiting"
                   /\ UNCHANGED << result, exc >>
    /\ UNCHANGED << aux, config, args, raw_response, tool_call_count, tool_calls,
                    tool_results, responses, executed >>

\* _process_response, after its _make_request returned new_response
AfterRerequest ==
    /\ pc = "responded"
    /\ site = "loop"
    /\ IF HasToolCalls(adapter, raw_response)
          THEN /\ tool_call_count' = tool_call_count + 1
               /\ pc' = "process"
               /\ UNCHANGED << result, exc >>
          ELSE /\ ReturnOrRaise(CreateResponse(adapter, raw_response, tool_calls, FALSE))
               /\ UNCHANGED tool_call_count
    /\ UNCHANGED << aux, config, args, pending, site, raw_response, tool_calls,
                    tool_results, requests, responses, executed, rounds >>

Next ==
    \/ \E msgs \in Conversations, strm \in BOOLEAN, tls \in ToolLists :
          Generate(msgs, strm, tls)
    \/ \E msgs \in Conversations, strm \in BOOLEAN, tls \in ToolLists :
          GenerateSync(msgs, strm, tls)
    \/ \E t \in VendorTemplates : VendorResponds(t)
    \/ VendorRateLimits
    \/ RetryRequest
    \/ AfterFirstRequest
    \/ ProcessResponse
    \/ RunTool
    \/ Rerequest
    \/ AfterRerequest

Spec == Init /\ [][Next]_vars

\* the event loop keeps running whatever is ready, and the vendor answers
\* every attempt one way or the other
LiveSpec == Init /\ [][Next]_vars /\ WF_vars(Next)

\* ======================================================== properties
\* the vendor's response reports a pending tool call on the wire: the
\* tool-use stop reason together with at least one tool_use block
SignalsToolCall(raw) ==
    /\ raw.stop_reason = "tool_use"
    /\ \E i \in 1..Len(raw.content) : IsToolUse(raw.content[i])

Count(s, x) == Cardinality({ i \in 1..Len(s) : s[i] = x })

\* the parts of a request body that are results for call id i
ResultParts(body, i) ==
    { << m, k >> \in { << m, k >> \in (1..Len(body.messages)) \X (1..4) :
                        k <= Len(body.messages[m].content) } :
        /\ body.messages[m].content[k].type = "tool_result"
        /\ body.messages[m].content[k].id = i }

ResultIn(body, i, c) ==
    \E mk \in ResultParts(body, i) : body.messages[mk[1]].content[mk[2]].text = c

Unknown(call) == call.name \notin Range(tools)

RaisingTool(call) == ~Unknown(call) /\ ToolFunction(call.name) = "raises"

RoundComplete == pc = "exec" /\ Len(tool_results) = Len(tool_calls)

\* C1: for every ceiling N, when every vendor response reports a pending tool
\* call (and none is rate limited), a finished non-streaming generate call
\* with tools has returned finish_reason "max_tools_exceeded" after at most N
\* tool rounds
C1_BoundExceededReturned ==
    ( /\ Terminated
      /\ ~stream
      /\ tools # << >>
      /\ responses # << >>
      /\ \A i \in 1..Len(responses) : SignalsToolCall(responses[i])
      /\ exc # "RateLimitError" )
    => ( /\ pc = "done"
         /\ result.finish_reason = "max_tools_exceeded"
         /\ Len(rounds) <= max_tool_calls )

\* C2: when the first response signals tool calls and the response to the
\* re-request signals none, the finished call (ceiling at least 1, tools
\* passed, no rate limit) has run each tool call of the first response once,
\* issued exactly two requests and returned create_response of the second
\* response, whose text it carries unchanged
C2_OneRoundTrip ==
    ( /\ Terminated
      /\ ~stream
      /\ tools # << >>
      /\ max_tool_calls >= 1
      /\ responses # << >>
      /\ SignalsToolCall(responses[1])
      /\ Len(responses) >= 2 => ~SignalsToolCall(responses[2])
      /\ exc # "RateLimitError" )
    => ( /\ pc = "done"
         /\ Len(requests) = 2
         /\ Len(responses) = 2
         /\ executed = Map(SelectSeq(responses[1].content, IsToolUse), LAMBDA b : b.id)
         /\ result.kind = "response"
         /\ result.finish_reason = responses[2].stop_reason
         /\ result.content = Map(SelectSeq(responses[2].content, IsText), LAMBDA b : b.text) )

\* the turns the adapter emits for one completed round
RoundTurns(r) == FormatToolResults(adapter, r.raw, r.results).payload.messages

\* C3: the request issued after k tool rounds carries the caller's formatted
\* messages and system prompt followed by the assistant turn and the result
\* turn of every round 1..k in order
C3_ContextPreserved ==
    \A j \in 2..Len(requests) :
        /\ requests[j].payload.system = FormatMessages(adapter, messages).system
        /\ requests[j].payload.messages =
               FormatMessages(adapter, messages).messages
               \o Flatten([ r \in 1..(j - 1) |-> RoundTurns(rounds[r]) ])

\* C4: a tool call naming no available tool gets an error-flagged result
\* keyed by the call's id with a message, _execute_tool does not raise, and
\* the round goes on to the next request, which carries that result
C4_UnknownToolRecovered ==
    /\ [](\A i \in 1..Len(tool_results) :
            Unknown(tool_calls[i]) =>
                /\ tool_results[i].is_error
                /\ tool_results[i].tool_use_id = tool_calls[i].id
                /\ tool_results[i].content \notin {"", NoneStr})
    /\ [][ ( /\ pc = "exec"
             /\ Len(tool_results) < Len(tool_calls)
             /\ Unknown(tool_calls[Len(tool_results) + 1]) )
           => ( /\ pc' = "exec"
                /\ Len(tool_results') = Len(tool_results) + 1 ) ]_vars
    /\ [][ ( /\ RoundComplete
             /\ \E i \in 1..Len(tool_calls) : Unknown(tool_calls[i]) )
           => ( /\ pc' = "awaiting"
                /\ Len(requests') = Len(requests) + 1
                /\ \A i \in 1..Len(tool_calls) :
                      Unknown(tool_calls[i]) =>
                          ResultIn(Last(requests').payload, tool_calls[i].id,
                                   tool_results[i].content) ) ]_vars

C4_Witness ==
    /\ pc = "awaiting"
    /\ site = "loop"
    /\ \E i \in 1..Len(tool_calls) :
          /\ Unknown(tool_calls[i])
          /\ tool_results[i].is_error
          /\ ResultIn(Last(requests).payload, tool_calls[i].id,
                      NotFoundMessage(tool_calls[i].name))

C6_RateLimitNotRaised == ~(pc = "raised" /\ exc = "RateLimitError")

\* request j has been answered by the vendor
Answered(j) == j <= Len(responses)

\* C7: a re-request that was rate limited k >= 1 times before it was answered
\* was attempted k + 1 times with the same body, every tool call of its round
\* was executed exactly once and has exactly one result in that body
C7_RetryKeepsRound ==
    \A j \in 2..Len(requests) :
        (requests[j].limited >= 1 /\ Answered(j)) =>
            /\ requests[j].attempts = requests[j].limited + 1
            /\ j - 1 <= Len(rounds)
            /\ \A i \in 1..Len(rounds[j - 1].calls) :
                  /\ Count(executed, rounds[j - 1].calls[i].id) = 1
                  /\ Cardinality(ResultParts(requests[j].payload,
                                             rounds[j - 1].calls[i].id)) = 1
                  /\ ResultIn(requests[j].payload, rounds[j - 1].calls[i].id,
                              rounds[j - 1].results[i].content)

C7_Witness ==
    /\ pc = "responded"
    /\ site = "loop"
    /\ Len(requests) >= 2
    /\ Last(requests).limited >= 1
    /\ Last(requests).attempts = Last(requests).limited + 1
    /\ Len(executed) = Len(Last(rounds).calls)

\* C8: under a vendor that rate limits every attempt the call ends by raising
C8_RetriesExhausted ==
    (vendor_mode = "always_limited" /\ pc = "awaiting") ~> (pc = "raised")

\* C9: a call waiting for a tool that never returns still reaches a terminal
\* state
C9_ToolTimeout == (pc = "blocked") ~> Terminated

\* C10: generate_sync with stream=true raises before any request is issued
C10_SyncStreamRejected ==
    (entry = "generate_sync" /\ stream) => (pc = "raised" /\ requests = << >>)

\* C11: generate with stream=true and a non-empty tools list is rejected with
\* an error before any request is issued
C11_StreamWithToolsRejected ==
    (stream /\ tools # << >> /\ pc # "idle") => (pc = "raised" /\ requests = << >>)

\* C12: a call with stream=true executes no tool and issues no second request;
\* when it returns it returns the stream_response sequence of the one raw
\* response it received
C12_StreamSkipsToolLoop ==
    stream =>
        /\ executed = << >>
        /\ rounds = << >>
        /\ Len(requests) <= 1
        /\ Len(responses) <= 1
        /\ pc = "done" =>
              /\ Len(responses) = 1
              /\ result.kind = "stream"
              /\ result.content =
                     Map(SelectSeq(responses[1].content, IsText), LAMBDA b : b.text)

C12_Witness ==
    /\ stream
    /\ tools # << >>
    /\ pc = "done"
    /\ result.kind = "stream"
    /\ SignalsToolCall(responses[1])

\* C13: generate_sync without tools (ceiling at least 1) whose vendor response
\* is a single text block with no tool-use marker returns one Text item equal
\* to that text and tool_calls None
C13_PlainTextResponse ==
    ( /\ Terminated
      /\ entry = "generate_sync"
      /\ ~stream
      /\ tools = << >>
      /\ max_tool_calls >= 1
      /\ Len(responses) = 1
      /\ responses[1].stop_reason = "end_turn"
      /\ Len(responses[1].content) = 1
      /\ IsText(responses[1].content[1]) )
    => ( /\ pc = "done"
         /\ result.content = << responses[1].content[1].text >>
         /\ result.tool_calls_none )

\* ---------------------------------- format_messages / create_response harness
\* longest message list given to _format_messages
MaxMsgs == 2

\* the messages a caller may build: text, several texts, audio,
\* a rejected and a valid image, a system prompt, an empty content list
FmtMessages ==
    { Message("user", << Content("text", "a") >>),
      Message("user", << Content("text", "a"), Content("text", "b") >>),
      Message("assistant", << Content("text", "b") >>),
      Message("user", << Content("audio", "aud") >>),
      Message("user", << Content("image", "img_bad") >>),
      Message("user", << Content("image", "img_ok"), Content("text", "a") >>),
      Message("system", << Content("text", "sys") >>),
      Message("system", << Content("image", "img_ok"), Content("text", "sys1"),
                           Content("text", "sys2") >>),
      Message("assistant", << >>) }

FmtInputs == UNION { [1..n -> FmtMessages] : n \in 1..MaxMsgs }

FmtInit ==
    /\ EngineIdle
    /\ FactoryIdle
    /\ ReplyIdle
    /\ SessionIdle
    /\ ConcIdle
    /\ OuterIdle
    /\ fmt_pc = "input"
    /\ fmt_adapter \in Adapters
    /\ fmt_msgs \in FmtInputs
    /\ fmt_out = [messages |-> << >>, system |-> NoneStr]
    /\ fmt_back = [raises |-> "none", resp |-> NoResult]

\* a Message containing only Text content (and some)
TextOnly(m) ==
    /\ m.role \in {"user", "assistant"}
    /\ m.content # << >>
    /\ \A i \in 1..Len(m.content) : IsTextContent(m.content[i])

\* the text parts of a formatted output, in order
TextParts(out) ==
    SelectSeq(Flatten([ i \in 1..Len(out.messages) |-> out.messages[i].content ]), IsText)

\* the mock vendor response carrying those parts
MockResponse(parts) == [content |-> parts, stop_reason |-> "end_turn"]

\* adapter._format_messages(messages)
FormatStep ==
    /\ fmt_pc = "input"
    /\ fmt_out' = FormatMessages(fmt_adapter, fmt_msgs)
    /\ fmt_pc' = "formatted"
    /\ UNCHANGED << besides_fmt, fmt_adapter, fmt_msgs, fmt_back >>

\* adapter._create_response(mock response built from the formatted text parts)
RoundTripStep ==
    /\ fmt_pc = "formatted"
    /\ Len(fmt_msgs) = 1
    /\ TextOnly(fmt_msgs[1])
    /\ fmt_back' = CreateResponse(fmt_adapter, MockResponse(TextParts(fmt_out)), << >>, TRUE)
    /\ fmt_pc' = "parsed"
    /\ UNCHANGED << besides_fmt, fmt_adapter, fmt_msgs, fmt_out >>

FmtNext == FormatStep \/ RoundTripStep

FmtSpec == FmtInit /\ [][FmtNext]_vars

\* C16: no adapter's format_messages emits a message whose content list is
\* empty
C16_NoEmptyContent ==
    fmt_pc \in {"formatted", "parsed"} =>
        \A i \in 1..Len(fmt_out.messages) : fmt_out.messages[i].content # << >>

\* C17: a text-only Message formatted and fed back as a mock response gives
\* an LLMResponse whose Text items are the original texts, in order
C17_TextRoundTrip ==
    fmt_pc = "parsed" =>
        /\ fmt_back.raises = "none"
        /\ fmt_back.resp.content = Map(fmt_msgs[1].content, LAMBDA c : c.data)

\* ------------------------------------------------------------- LLMFactory
\* register calls made after import
MaxRegistrations == 2

\* create calls that reach a constructor
MaxCreates == 2

\* the keyword arguments a caller passes to create, by the keys present
\* ("aws" stands for aws_access_key and aws_secret_key together)
KwargKeys == SUBSET {"api_key", "aws"}

\* provider_class(model=model, **kwargs): a missing required parameter is a
\* TypeError; keywords the constructor does not name reach
\* ModelConfig(**kwargs), which rejects the aws keys, and BedrockAnthropicLLM
\* passes api_key=None positionally to BaseLLM.__init__, so an api_key keyword
\* is a duplicate argument
Construct(cls, keys) ==
    CASE cls \in {"OpenAILLM", "AnthropicLLM"} ->
            IF "api_key" \in keys /\ "aws" \notin keys
                THEN [raises |-> "none", instance |-> cls]
            ELSE [raises |-> "TypeError", instance |-> "none"]
      [] cls = "BedrockAnthropicLLM" ->
            IF "aws" \in keys /\ "api_key" \notin keys
                THEN [raises |-> "none", instance |-> cls]
            ELSE [raises |-> "TypeError", instance |-> "none"]

\* register that keeps an existing entry
Register_KeepsFirst(name, cls) ==
    /\ Len(registrations) < Len(DefaultRegistrations) + MaxRegistrations
    /\ providers' = IF providers[name] = "unregistered"
                        THEN [providers EXCEPT ![name] = cls] ELSE providers
    /\ registrations' = Append(registrations, << name, cls >>)
    /\ UNCHANGED << besides_factory, fac_call, fac_result, constructed >>

\* LLMFactory.register(name, provider_class)
Register(name, cls) ==
    /\ Len(registrations) < Len(DefaultRegistrations) + MaxRegistrations
    /\ providers' = [providers EXCEPT ![name] = cls]
    /\ registrations' = Append(registrations, << name, cls >>)
    /\ UNCHANGED << besides_factory, fac_call, fac_result, constructed >>

\* LLMFactory.create(provider, model, **kwargs)
Create(provider, keys) ==
    /\ Len(constructed) < MaxCreates
    /\ fac_call' = [provider |-> provider, keys |-> keys]
    /\ IF providers[provider] = "unregistered"
          THEN /\ fac_result' = [raises |-> "ValueError", instance |-> "none"]
               /\ UNCHANGED constructed
          ELSE /\ fac_result' = Construct(providers[provider], keys)
               /\ constructed' = Append(constructed, providers[provider])
    /\ UNCHANGED << besides_factory, providers, registrations >>

FactoryInit ==
    /\ EngineIdle /\ FmtIdle /\ ReplyIdle /\ SessionIdle /\ ConcIdle /\ OuterIdle
    /\ FactoryIdle

FactoryNext ==
    \/ \E name \in {"openai", "custom"}, cls \in ProviderClasses : Register(name, cls)
    \/ \E provider \in ProviderNames, keys \in KwargKeys : Create(provider, keys)

FactorySpec == FactoryInit /\ [][FactoryNext]_vars

\* the class of the last register call made under a name, from the log
RECURSIVE LastRegistered(_, _)
LastRegistered(log, name) ==
    IF log = << >> THEN "unregistered"
    ELSE IF Last(log)[1] = name THEN Last(log)[2]
    ELSE LastRegistered(SubSeq(log, 1, Len(log) - 1), name)

\* a create call is made in this step
CreateCalled == fac_call' # fac_call \/ fac_result' # fac_result \/ constructed' # constructed

\* C20 as stated: an unregistered name raises ValueError, constructs nothing
\* and leaves the registry alone; a registered name returns an instance of
\* the class most recently registered under it
C20_CreateReturnsInstance ==
    [][ CreateCalled =>
          IF LastRegistered(registrations, fac_call'.provider) = "unregistered"
             THEN /\ fac_result'.raises = "ValueError"
                  /\ constructed' = constructed
                  /\ providers' = providers
             ELSE /\ fac_result'.raises = "none"
                  /\ fac_result'.instance = LastRegistered(registrations, fac_call'.provider)
      ]_vars

\* C20 amended: with a registered name create calls the constructor of the
\* class most recently registered under it, and returns the instance or
\* lets the constructor's exception through
C20_CreateDispatches ==
    [][ CreateCalled =>
          IF LastRegistered(registrations, fac_call'.provider) = "unregistered"
             THEN /\ fac_result'.raises = "ValueError"
                  /\ constructed' = constructed
                  /\ providers' = providers
             ELSE /\ constructed' =
                        Append(constructed, LastRegistered(registrations, fac_call'.provider))
                  /\ providers' = providers
                  /\ \/ /\ fac_result'.raises = "none"
                        /\ fac_result'.instance =
                               LastRegistered(registrations, fac_call'.provider)
                     \/ /\ fac_result'.raises = "TypeError"
                        /\ fac_result'.instance = "none"
      ]_vars

\* an instance of a class registered over the default one has been returned,
\* and an unregistered name has been refused
C20_Witness ==
    /\ fac_call.provider = "openai"
    /\ fac_result.raises = "none"
    /\ fac_result.instance = "BedrockAnthropicLLM"
    /\ providers["openai"] = "BedrockAnthropicLLM"
    /\ Len(constructed) = 1

\* ------------------------------------------------------ handle_email_reply
\* what a checker_config and an email_data may contain: the auto_reply flag,
\* the email fields present, the provider, the credentials present, what the
\* adapter's generate_sync does, whether imap_server is set, what SMTP does
ReplyInputs ==
    [auto_reply : BOOLEAN,
     fields : SUBSET {"from", "subject"},
     provider : {"openai", "anthropic", "bedrock-anthropic", "unknown_provider"},
     keys : KwargKeys,
     llm : {"content", "empty", "raises"},
     imap_server : BOOLEAN,
     smtp : {"ok", "fails"}]

\* VENDOR_CONFIGS: the required fields of a provider; None for an unknown one
KnownVendor(p) == p \in {"openai", "anthropic", "bedrock-anthropic"}

RequiredKeys(p) == IF p = "bedrock-anthropic" THEN {"aws"} ELSE {"api_key"}

\* the fields of the vendor's config _initialize_llm copies into llm_args
VendorKeys(p) == IF p = "bedrock-anthropic" THEN {"aws"} ELSE {"api_key"}

ReplyInit ==
    /\ EngineIdle
    /\ FmtIdle
    /\ FactoryIdle
    /\ SessionIdle
    /\ ConcIdle
    /\ OuterIdle
    /\ reply_in \in ReplyInputs
    /\ reply_pc = "start"
    /\ reply_ret = "none"
    /\ reply_exc = "none"
    /\ llm_constructed = 0
    /\ llm_called = 0
    /\ emails_sent = 0

ReplyReturn(v) ==
    /\ reply_pc' = "returned"
    /\ reply_ret' = v
    /\ UNCHANGED reply_exc

\* an exception inside the try block that leaves the function
HandleException_Propagates(e) ==
    /\ reply_pc' = "raised"
    /\ reply_exc' = e
    /\ UNCHANGED reply_ret

\* an exception inside the try block: "except Exception" logs, returns False
HandleException(e) == ReplyReturn("False")

\* the auto_reply test and EmailData.from_dict
ReplyStart ==
    /\ reply_pc = "start"
    /\ IF ~reply_in.auto_reply
          THEN ReplyReturn("False")
       ELSE IF ~({"from", "subject"} \subseteq reply_in.fields)
          THEN ReplyReturn("False")
       ELSE /\ reply_pc' = "init"
            /\ UNCHANGED << reply_ret, reply_exc >>
    /\ UNCHANGED << besides_reply, reply_in, llm_constructed, llm_called, emails_sent >>

\* llm = _initialize_llm(checker_config) and the test of llm
ReplyInitializeLLM ==
    /\ reply_pc = "init"
    /\ IF ~KnownVendor(reply_in.provider)
          THEN ReplyReturn("False") /\ UNCHANGED llm_constructed
       ELSE IF ~(RequiredKeys(reply_in.provider) \subseteq reply_in.keys)
          THEN ReplyReturn("False") /\ UNCHANGED llm_constructed
       ELSE LET made == Construct(DefaultProviders[reply_in.provider],
                                  VendorKeys(reply_in.provider) \cap reply_in.keys)
            IN  IF made.raises # "none"
                   THEN HandleException(made.raises) /\ UNCHANGED llm_constructed
                   ELSE /\ llm_constructed' = llm_constructed + 1
                        /\ reply_pc' = "generate"
                        /\ UNCHANGED << reply_ret, reply_exc >>
    /\ UNCHANGED << besides_reply, reply_in, llm_called, emails_sent >>

\* response = llm.generate_sync(...) and the test of response
ReplyGenerate ==
    /\ reply_pc = "generate"
    /\ llm_called' = llm_called + 1
    /\ CASE reply_in.llm = "raises" -> HandleException("Exception")
         [] reply_in.llm = "empty" -> ReplyReturn("False")
         [] reply_in.llm = "content" -> /\ reply_pc' = "send"
                                        /\ UNCHANGED << reply_ret, reply_exc >>
    /\ UNCHANGED << besides_reply, reply_in, llm_constructed, emails_sent >>

\* checker_config["imap_server"], send_email and the test of success
ReplySend ==
    /\ reply_pc = "send"
    /\ IF ~reply_in.imap_server
          THEN HandleException("KeyError") /\ UNCHANGED emails_sent
       ELSE IF reply_in.smtp = "ok"
          THEN ReplyReturn("True") /\ emails_sent' = emails_sent + 1
       ELSE ReplyReturn("False") /\ UNCHANGED emails_sent
    /\ UNCHANGED << besides_reply, reply_in, llm_constructed, llm_called >>

ReplyNext == ReplyStart \/ ReplyInitializeLLM \/ ReplyGenerate \/ ReplySend

ReplySpec == ReplyInit /\ [][ReplyNext]_vars

\* C19: handle_email_reply does not raise; True only after non-empty LLM
\* content and a successful send; False and nothing sent when auto_reply is
\* off, 'from' or 'subject' is missing, the provider is unknown, a required
\* credential is missing or sending fails; auto_reply off builds and calls no
\* LLM
C19_ReplyOutcome ==
    /\ reply_pc # "raised"
    /\ reply_exc = "none"
    /\ ~reply_in.auto_reply => llm_constructed = 0 /\ llm_called = 0
    /\ reply_pc = "returned" =>
          /\ reply_ret \in {"True", "False"}
          /\ reply_ret = "True" =>
                /\ reply_in.llm = "content"
                /\ llm_called = 1
                /\ reply_in.smtp = "ok"
                /\ emails_sent = 1
          /\ ( \/ ~reply_in.auto_reply
               \/ ~({"from", "subject"} \subseteq reply_in.fields)
               \/ reply_in.provider = "unknown_provider"
               \/ ~(RequiredKeys(reply_in.provider) \subseteq reply_in.keys)
               \/ reply_in.smtp = "fails" )
             => reply_ret = "False" /\ emails_sent = 0

C19_Witness ==
    /\ reply_pc = "returned"
    /\ reply_ret = "True"
    /\ emails_sent = 1
    /\ llm_called = 1

\* ------------------------------------------- several calls on one instance
\* generate calls made one after the other on the instance
MaxCalls == 2

\* longest self.history
MaxHistory == 1

\* the ceiling of the instance the calls are made on
SessionCeiling == 1

SessionInit ==
    /\ adapter \in Adapters
    /\ max_tool_calls = SessionCeiling
    /\ vendor_mode = "normal"
    /\ CallIdle
    /\ AuxIdle

\* register_tool(tool)
RegisterTool(n) ==
    /\ pc = "idle"
    /\ self_tools' = self_tools \cup {n}
    /\ UNCHANGED << engine, besides_session, self_history, self_model, self_config,
                    calls, earlier_tools >>

\* add_to_history(message)
AddToHistory(m) ==
    /\ pc = "idle"
    /\ Len(self_history) < MaxHistory
    /\ self_history' = Append(self_history, m)
    /\ UNCHANGED << engine, besides_session, self_tools, self_model, self_config,
                    calls, earlier_tools >>

\* clear_history()
ClearHistory ==
    /\ pc = "idle"
    /\ self_history # << >>
    /\ self_history' = << >>
    /\ UNCHANGED << engine, besides_session, self_tools, self_model, self_config,
                    calls, earlier_tools >>

\* the call has ended and the caller is about to make the next one: the
\* locals of the ended call are gone
NextCall ==
    /\ Terminated
    /\ calls + 1 < MaxCalls
    /\ calls' = calls + 1
    /\ earlier_tools' = earlier_tools \cup Range(tools)
    /\ pc' = "idle"
    /\ entry' = "none"
    /\ messages' = << >>
    /\ stream' = FALSE
    /\ tools' = << >>
    /\ pending' = NoArgs
    /\ site' = "none"
    /\ raw_response' = NoRaw
    /\ tool_call_count' = 0
    /\ tool_calls' = << >>
    /\ tool_results' = << >>
    /\ result' = NoResult
    /\ exc' = "none"
    /\ requests' = << >>
    /\ responses' = << >>
    /\ executed' = << >>
    /\ rounds' = << >>
    /\ UNCHANGED << config, besides_session, instance >>

SessionNext ==
    \/ Next
    \/ NextCall
    \/ \E n \in {"echo"} : RegisterTool(n)
    \/ \E m \in {Message("user", << Content("text", "earlier") >>)} : AddToHistory(m)
    \/ ClearHistory

SessionSpec == SessionInit /\ [][SessionNext]_vars

\* C15: a step of a generate call changes none of self.tools, self.history,
\* self.max_tool_calls, self.model, self.config; and in a call that passes no
\* tools every tool the vendor asks for is "not found", whatever was passed to
\* earlier calls or registered
C15_InstanceStateKept ==
    [][ /\ engine' # engine =>
              instance' = instance /\ max_tool_calls' = max_tool_calls
        /\ tools' = << >> =>
              \A i \in 1..Len(tool_results') :
                  /\ tool_results'[i].is_error
                  /\ tool_results'[i].content = NotFoundMessage(tool_calls'[i].name)
      ]_vars

\* a later call without tools asked for a tool that an earlier call was given
\* and that is registered, and answered "not found"
C15_Witness ==
    /\ calls >= 1
    /\ "echo" \in earlier_tools
    /\ "echo" \in self_tools
    /\ self_history # << >>
    /\ pc \notin {"idle", "awaiting"}
    /\ tools = << >>
    /\ \E i \in 1..Len(tool_results) :
          /\ tool_calls[i].name = "echo"
          /\ tool_results[i].is_error

\* --------------------------------------- two interleaved calls, one instance
\* the ceiling of the instance the two calls share
ConcCeiling == 1

\* what the vendor answers in the interleaved runs
ConcTemplates ==
    { [content |-> << TextBlock("hi") >>, stop_reason |-> "end_turn"],
      [content |-> << ToolUseBlock(0, "echo", "hi") >>, stop_reason |-> "tool_use"],
      [content |-> << TextBlock("hi"), ToolUseBlock(0, "fail", "x") >>,
       stop_reason |-> "tool_use"] }

ConcInit ==
    /\ adapter \in Adapters
    /\ max_tool_calls \in 0..ConcCeiling
    /\ vendor_mode = "normal"
    /\ CallIdle
    /\ AuxIdle

\* the locals of the running call
Locals ==
    [pc |-> pc, entry |-> entry, messages |-> messages, stream |-> stream,
     tools |-> tools, pending |-> pending, site |-> site,
     raw_response |-> raw_response, tool_call_count |-> tool_call_count,
     tool_calls |-> tool_calls, tool_results |-> tool_results, result |-> result,
     exc |-> exc, requests |-> requests, responses |-> responses,
     executed |-> executed, rounds |-> rounds]

InFlight(p) == p \notin {"idle", "done", "raised"}

\* a tool-loop counter kept on the instance: the resumed call sees the value
\* the other call left
ResumedCount_Shared(saved, live) == live

\* tool_call_count is a parameter of _process_response: the resumed call sees
\* its own value
ResumedCount(saved, live) == saved

\* the running call is suspended and the other one runs on: at an await when
\* both are coroutines of one event loop, anywhere when they are generate_sync
\* calls of two threads (each with the event loop generate_sync creates)
Switch ==
    /\ parked' = Locals
    /\ running' = 3 - running
    /\ interleaved' = (interleaved \/ (InFlight(pc) /\ InFlight(parked.pc)))
    /\ pc' = parked.pc
    /\ entry' = parked.entry
    /\ messages' = parked.messages
    /\ stream' = parked.stream
    /\ tools' = parked.tools
    /\ pending' = parked.pending
    /\ site' = parked.site
    /\ raw_response' = parked.raw_response
    /\ tool_call_count' = ResumedCount(parked.tool_call_count, tool_call_count)
    /\ tool_calls' = parked.tool_calls
    /\ tool_results' = parked.tool_results
    /\ result' = parked.result
    /\ exc' = parked.exc
    /\ requests' = parked.requests
    /\ responses' = parked.responses
    /\ executed' = parked.executed
    /\ rounds' = parked.rounds
    /\ UNCHANGED << config, besides_conc >>

ConcNext ==
    \/ \E msgs \in Conversations, tls \in ToolLists : Generate(msgs, FALSE, tls)
    \/ \E t \in ConcTemplates : VendorResponds(t)
    \/ AfterFirstRequest
    \/ ProcessResponse
    \/ RunTool
    \/ Rerequest
    \/ AfterRerequest
    \/ Switch

ConcSpec == ConcInit /\ [][ConcNext]_vars

\* what a call produces when run alone: its requests, its number of tool
\* rounds and how it ends, from its arguments and the vendor's responses only
Ended(cr, reqs, n) ==
    [requests |-> reqs, rounds |-> n,
     pc |-> IF cr.raises = "none" THEN "done" ELSE "raised",
     result |-> cr.resp, exc |-> cr.raises]

Unended(reqs, n) ==
    [requests |-> reqs, rounds |-> n, pc |-> "running", result |-> NoResult,
     exc |-> "none"]

RECURSIVE AloneProcess(_, _, _, _, _, _, _)
AloneProcess(a, ceiling, tls, resps, k, count, reqs) ==
    IF count >= ceiling
        THEN Ended([raises |-> "none", resp |-> MaxToolsExceeded], reqs, k - 1)
    ELSE LET raw == resps[k]
             cs == ExtractToolCalls(a, raw)
             outs == [ i \in 1..Len(cs) |-> ExecuteTool(cs[i], tls) ]
             results == [ i \in 1..Len(cs) |-> outs[i].result ]
             fmtd == FormatToolResults(a, raw, results)
             sent == Append(reqs, [messages |-> fmtd.payload.messages,
                                   system |-> fmtd.payload.system,
                                   tools |-> FormatTools(a, tls),
                                   stream |-> FALSE])
         IN  IF cs = << >>
                THEN Ended(CreateResponse(a, raw, << >>, TRUE), reqs, k - 1)
             ELSE IF \E i \in 1..Len(cs) : outs[i].outcome # "result"
                THEN Unended(reqs, k - 1)
             ELSE IF fmtd.raises # "none"
                THEN Ended([raises |-> fmtd.raises, resp |-> NoResult], reqs, k - 1)
             ELSE IF k + 1 > Len(resps)
                THEN Unended(sent, k)
             ELSE IF HasToolCalls(a, resps[k + 1])
                THEN AloneProcess(a, ceiling, tls, resps, k + 1, count + 1, sent)
             ELSE Ended(CreateResponse(a, resps[k + 1], cs, FALSE), sent, k)

Alone(a, ceiling, msgs, tls, resps) ==
    LET first == << [messages |-> FormatMessages(a, msgs).messages,
                     system |-> FormatMessages(a, msgs).system,
                     tools |-> FormatTools(a, tls),
                     stream |-> FALSE] >>
    IN  IF resps = << >> THEN Unended(first, 0)
        ELSE IF a = "openai" /\ ~(tls # << >> /\ OpenAIHasToolCalls(resps[1]))
            THEN Ended(OpenAICreateResponse(resps[1], << >>, TRUE), first, 0)
        ELSE AloneProcess(a, ceiling, tls, resps, 1, 0, first)

\* the call with locals c ended as it ends alone
AsAlone(c) ==
    LET alone == Alone(adapter, max_tool_calls, c.messages, c.tools, c.responses)
    IN  /\ alone.pc = c.pc
        /\ alone.result = c.result
        /\ alone.exc = c.exc
        /\ alone.rounds = Len(c.rounds)
        /\ alone.requests = [ i \in 1..Len(c.requests) |-> c.requests[i].payload ]

\* C14: each of two interleaved generate calls on one instance ends with the
\* rounds, the requests and the response it has when run alone against the
\* same vendor responses
C14_InterleavedAsAlone ==
    /\ Locals.pc \in {"done", "raised"} => AsAlone(Locals)
    /\ parked.pc \in {"done", "raised"} => AsAlone(parked)

\* both calls ran a tool round, interleaved, and both have ended
C14_Witness ==
    /\ interleaved
    /\ pc = "done"
    /\ parked.pc = "done"
    /\ Len(rounds) >= 1
    /\ Len(parked.rounds) >= 1
    /\ messages # parked.messages

\* C21: a non-streaming call whose first raw response holds no tool call
\* returns the adapter's create_response of that response after one request
\* and no tool execution, whatever the ceiling
C21_NoToolCallsReturned ==
    ( /\ Terminated
      /\ ~stream
      /\ Len(responses) >= 1
      /\ responses[1].stop_reason # "tool_use"
      /\ \A i \in 1..Len(responses[1].content) : ~IsToolUse(responses[1].content[i]) )
    => LET cr == CreateResponse(adapter, responses[1], << >>, TRUE)
       IN  /\ Len(requests) = 1
           /\ executed = << >>
           /\ IF cr.raises = "none"
                 THEN pc = "done" /\ result.content = cr.resp.content
                                 /\ result.finish_reason = cr.resp.finish_reason
                 ELSE pc = "raised" /\ exc = cr.raises

\* the ids of the calls of the completed rounds, in order
RoundCallIds ==
    Flatten([ r \in 1..Len(rounds) |->
                [ i \in 1..Len(rounds[r].calls) |-> rounds[r].calls[i].id ] ])

\* C22: the re-request of a round is issued after _execute_tool returned for
\* every call extracted from the preceding response; the results given to
\* format_tool_results are one per call, in order, each with the call's id;
\* the re-request carries the formatted tools
C22_ReRequestAfterAllResults ==
    /\ Len(requests) = Len(rounds) + (IF pc = "idle" \/ requests = << >> THEN 0 ELSE 1)
    /\ Len(executed) >= Len(RoundCallIds)
    /\ SubSeq(executed, 1, Len(RoundCallIds)) = RoundCallIds
    /\ \A r \in 1..Len(rounds) :
          /\ rounds[r].raw = responses[r]
          /\ rounds[r].calls = ExtractToolCalls(adapter, responses[r])
          /\ rounds[r].calls # << >>
          /\ Len(rounds[r].results) = Len(rounds[r].calls)
          /\ \A i \in 1..Len(rounds[r].calls) :
                rounds[r].results[i].tool_use_id = rounds[r].calls[i].id
          /\ requests[r + 1].payload.tools = FormatTools(adapter, tools)
          /\ requests[r + 1].payload.messages =
                 FormatToolResults(adapter, responses[r], rounds[r].results).payload.messages

\* a round with two extracted calls has been re-requested
C22_Witness ==
    /\ Len(rounds) >= 1
    /\ Len(rounds[1].calls) = 2
    /\ Len(requests) >= 2
    /\ tools # << >>

\* ------------------------- tool-call detection and format_tool_results
\* the content of the raw responses given to the adapters' methods
RawContents ==
    { << >>,
      << TextBlock("hi") >>,
      << ToolUseBlock(11, "echo", "hi") >>,
      << TextBlock("hi"), ToolUseBlock(12, "fail", "x") >>,
      << ToolUseBlock(11, "ghost", "x"), ToolUseBlock(12, "echo", "hi") >>,
      << ToolUseBlock(11, "echo", "a"), TextBlock("hi"), ToolUseBlock(13, "echo", "b") >> }

\* the stop reasons a vendor reports
StopReasons == {"end_turn", "tool_use", "max_tokens"}

RawInputs == [content : RawContents, stop_reason : StopReasons]

DetectInit ==
    /\ EngineIdle
    /\ FmtIdle
    /\ FactoryIdle
    /\ ReplyIdle
    /\ SessionIdle
    /\ ConcIdle
    /\ CfgFileIdle
    /\ TaskIdle
    /\ MailIdle
    /\ det_pc = "input"
    /\ det_adapter \in Adapters
    /\ det_raw \in RawInputs
    /\ det_has = FALSE
    /\ det_calls = << >>
    /\ det_results = << >>
    /\ det_payload = [raises |-> "none", payload |-> NoPayload]

\* adapter._has_tool_calls(raw) and adapter._extract_tool_calls(raw)
DetectStep ==
    /\ det_pc = "input"
    /\ det_has' = HasToolCalls(det_adapter, det_raw)
    /\ det_calls' = ExtractToolCalls(det_adapter, det_raw)
    /\ det_pc' = "detected"
    /\ UNCHANGED << besides_detect, det_adapter, det_raw, det_results, det_payload >>

\* adapter._format_tool_results(raw, results) with one result per tool_use
\* block of the response, as _execute_tool builds them
FormatResultsStep ==
    /\ det_pc = "detected"
    /\ MessageToolCalls(det_raw) # << >>
    /\ det_results' = [ i \in 1..Len(MessageToolCalls(det_raw)) |->
                          ToolResult(MessageToolCalls(det_raw)[i].id, "out", i = 2) ]
    /\ det_payload' = FormatToolResults(det_adapter, det_raw, det_results')
    /\ det_pc' = "formatted"
    /\ UNCHANGED << besides_detect, det_adapter, det_raw, det_has, det_calls >>

DetectNext == DetectStep \/ FormatResultsStep

DetectSpec == DetectInit /\ [][DetectNext]_vars

\* C23: the two Anthropic adapters detect a response with stop reason
\* tool_use and tool_use blocks: has_tool_calls is true and extract_tool_calls
\* gives one {id, name, input} per tool_use block, in block order
C23_ToolUseDetected ==
    ( /\ det_pc \in {"detected", "formatted"}
      /\ det_adapter \in {"anthropic", "bedrock"}
      /\ SignalsToolCall(det_raw) )
    => ( /\ det_has
         /\ det_calls = Map(SelectSeq(det_raw.content, IsToolUse), ToolCall) )

\* C24: format_tool_results gives the assistant's turn and then one entry per
\* result keyed by the call id: a role "tool" message per result for OpenAI,
\* one user turn of tool_result blocks for the two Anthropic adapters
C24_ToolResultEnvelope ==
    det_pc = "formatted" =>
        LET msgs == det_payload.payload.messages
            n == Len(det_results)
        IN  /\ det_payload.raises = "none"
            /\ msgs # << >>
            /\ msgs[1].role = "assistant"
            /\ IF det_adapter = "openai"
                  THEN /\ Len(msgs) = 1 + n
                       /\ \A i \in 1..n :
                             /\ msgs[1 + i].role = "tool"
                             /\ msgs[1 + i].content =
                                    << ToolResultPart(det_results[i].tool_use_id,
                                                      det_results[i].content) >>
                  ELSE /\ Len(msgs) = 2
                       /\ msgs[2].role = "user"
                       /\ msgs[2].content =
                              [ i \in 1..n |-> ToolResultPart(det_results[i].tool_use_id,
                                                              det_results[i].content) ]

\* C26: for every adapter and raw response has_tool_calls is true exactly
\* when extract_tool_calls is non-empty
C26_HasIffExtract ==
    det_pc \in {"detected", "formatted"} => (det_has <=> det_calls # << >>)

\* the texts of the Text items of a message / of the text parts of a
\* formatted message, in order
TextsOf(m) == Map(SelectSeq(m.content, IsTextContent), LAMBDA c : c.data)

PartTextsOf(fm) == Map(SelectSeq(fm.content, IsText), LAMBDA b : b.text)

\* the strictly increasing maps from the formatted messages to the positions
\* of the input messages
Embeddings(n, k) ==
    { f \in [1..n -> 1..k] : \A i, j \in 1..n : i < j => f[i] < f[j] }

MaxReads == 1

ConfigInit ==
    /\ EngineIdle
    /\ FmtIdle
    /\ FactoryIdle
    /\ ReplyIdle
    /\ SessionIdle
    /\ ConcIdle
    /\ DetectIdle
    /\ TaskIdle
    /\ MailIdle
    /\ cfg_path = 1
    /\ tmp_path = 0
    /\ inodes = [ n \in Inodes |-> [content |-> {}, complete |-> n = 1] ]
    /\ flock = [ n \in Inodes |-> 0 ]
    /\ up_pc = [ u \in Updaters |-> "load" ]
    /\ up_config = [ u \in Updaters |-> {} ]
    /\ up_fd = [ u \in Updaters |-> 0 ]
    /\ up_ret = [ u \in Updaters |-> "none" ]
    /\ rd_seen = NoRead

\* an inode no path names and no updater has open
FreeInode ==
    CHOOSE n \in Inodes :
        /\ n # cfg_path
        /\ n # tmp_path
        /\ \A u \in Updaters : up_fd[u] # n

\* update_checker_field: config = load_config() under LOCK_SH on the
\* configuration file, then checker[field] = value in memory.  A file that is
\* not whole JSON gives DEFAULT_CONFIG, in which no checker is found
LoadConfig(u) ==
    /\ up_pc[u] = "load"
    /\ flock[cfg_path] = 0
    /\ IF inodes[cfg_path].complete
          THEN /\ up_config' = [up_config EXCEPT ![u] = inodes[cfg_path].content \cup {u}]
               /\ up_pc' = [up_pc EXCEPT ![u] = "open"]
               /\ UNCHANGED up_ret
          ELSE /\ up_ret' = [up_ret EXCEPT ![u] = "False"]
               /\ up_pc' = [up_pc EXCEPT ![u] = "done"]
               /\ UNCHANGED up_config
    /\ UNCHANGED << besides_cfgfile, cfg_path, tmp_path, inodes, flock, up_fd, rd_seen >>

\* save_config: open(temp_file, "w") creates the temp file or truncates the
\* one that is there
OpenTemp(u) ==
    /\ up_pc[u] = "open"
    /\ LET n == IF tmp_path = 0 THEN FreeInode ELSE tmp_path
       IN  /\ tmp_path' = n
           /\ inodes' = [inodes EXCEPT ![n] = [content |-> {}, complete |-> FALSE]]
           /\ up_fd' = [up_fd EXCEPT ![u] = n]
    /\ up_pc' = [up_pc EXCEPT ![u] = "lock"]
    /\ UNCHANGED << besides_cfgfile, cfg_path, flock, up_config, up_ret, rd_seen >>

\* save_config: fcntl.flock(f.fileno(), LOCK_EX) on the temp file
LockTemp(u) ==
    /\ up_pc[u] = "lock"
    /\ flock[up_fd[u]] = 0
    /\ flock' = [flock EXCEPT ![up_fd[u]] = u]
    /\ up_pc' = [up_pc EXCEPT ![u] = "write"]
    /\ UNCHANGED << besides_cfgfile, cfg_path, tmp_path, inodes, up_config, up_fd, up_ret, rd_seen >>

\* save_config: json.dump, flush, fsync
WriteTemp(u) ==
    /\ up_pc[u] = "write"
    /\ inodes' = [inodes EXCEPT ![up_fd[u]] = [content |-> up_config[u], complete |-> TRUE]]
    /\ up_pc' = [up_pc EXCEPT ![u] = "replace"]
    /\ UNCHANGED << besides_cfgfile, cfg_path, tmp_path, flock, up_config, up_fd, up_ret, rd_seen >>

\* save_config: os.replace(temp_file, _config_file), OSError when the temp
\* path is gone
ReplaceConfig(u) ==
    /\ up_pc[u] = "replace"
    /\ IF tmp_path # 0
          THEN /\ cfg_path' = tmp_path
               /\ tmp_path' = 0
               /\ up_ret' = [up_ret EXCEPT ![u] = "True"]
          ELSE /\ up_ret' = [up_ret EXCEPT ![u] = "False"]
               /\ UNCHANGED << cfg_path, tmp_path >>
    /\ up_pc' = [up_pc EXCEPT ![u] = "finally"]
    /\ UNCHANGED << besides_cfgfile, inodes, flock, up_config, up_fd, rd_seen >>

\* save_config, the finally block: LOCK_UN, then os.unlink(temp_file) when a
\* file of that name exists; the with statement closes the file
CleanUp(u) ==
    /\ up_pc[u] = "finally"
    /\ flock' = [flock EXCEPT ![up_fd[u]] = 0]
    /\ tmp_path' = 0
    /\ up_fd' = [up_fd EXCEPT ![u] = 0]
    /\ up_pc' = [up_pc EXCEPT ![u] = "done"]
    /\ UNCHANGED << besides_cfgfile, cfg_path, inodes, up_config, up_ret, rd_seen >>

\* a reader's load_config: LOCK_SH on the configuration file, json.load;
\* json.JSONDecodeError gives DEFAULT_CONFIG
ReadConfig ==
    /\ rd_seen.reads < MaxReads
    /\ flock[cfg_path] = 0
    /\ rd_seen' = [reads |-> rd_seen.reads + 1,
                   whole |-> inodes[cfg_path].complete,
                   content |-> inodes[cfg_path].content]
    /\ UNCHANGED << besides_cfgfile, cfg_path, tmp_path, inodes, flock, up_pc, up_config, up_fd, up_ret >>

ConfigNext ==
    \/ \E u \in Updaters :
          \/ LoadConfig(u)
          \/ OpenTemp(u)
          \/ LockTemp(u)
          \/ WriteTemp(u)
          \/ ReplaceConfig(u)
          \/ CleanUp(u)
    \/ ReadConfig

ConfigSpec == ConfigInit /\ [][ConfigNext]_vars

\* C27: the configuration file is whole JSON at every moment, and when two
\* concurrent updates have both returned True the file holds both
C27_NoLostUpdate ==
    /\ rd_seen.whole
    /\ (\A u \in Updaters : up_pc[u] = "done" /\ up_ret[u] = "True")
          => Updaters \subseteq inodes[cfg_path].content

\* ------------------------------------------------------ scheduled tasks
MaxTasks == 2

MaxClock == 2

MaxRecipients == 2

\* what llm.generate_sync and _parse_llm_response can come to
LLMOutcomes == {"ok", "empty", "unparsable", "raises"}

RunInputs ==
    { [llm |-> l, sends |-> r] :
        l \in LLMOutcomes,
        r \in UNION { [1..n -> BOOLEAN] : n \in 0..MaxRecipients } }

TaskInit ==
    /\ EngineIdle
    /\ FmtIdle
    /\ FactoryIdle
    /\ ReplyIdle
    /\ SessionIdle
    /\ ConcIdle
    /\ DetectIdle
    /\ CfgFileIdle
    /\ TaskIdle
    /\ MailIdle

\* index of the first task with this id, 0 when there is none
FirstWithId(ts, id) ==
    IF \E i \in 1..Len(ts) : ts[i].id = id
       THEN CHOOSE i \in 1..Len(ts) :
                /\ ts[i].id = id
                /\ \A j \in 1..(i - 1) : ts[j].id # id
       ELSE 0

\* tasks.pop(i)
Pop(ts, i) == [ j \in 1..(Len(ts) - 1) |-> IF j < i THEN ts[j] ELSE ts[j + 1] ]

\* TaskManager.get_task: the first task with the id, NoTask for None
GetTask(id) ==
    IF FirstWithId(tasks, id) = 0 THEN NoTask ELSE tasks[FirstWithId(tasks, id)]

\* TaskManager.add_task: id "task_{len(tasks) + 1}", last_run None; an
\* invalid cron expression returns False before the append
AddTask(enabled, valid) ==
    /\ run_pc \in {"idle", "returned"}
    /\ Len(tasks) < MaxTasks
    /\ IF valid
          THEN /\ tasks' = Append(tasks, [id |-> Len(tasks) + 1,
                                          enabled |-> enabled,
                                          last_run |-> 0])
               /\ task_ret' = "True"
          ELSE /\ task_ret' = "False"
               /\ UNCHANGED tasks
    /\ UNCHANGED << besides_tasks, now, run_pc, run_task, run_in, run_sent, run_success, run_ret >>

\* TaskManager.delete_task: pops the first task with the id
DeleteTask(id) ==
    /\ run_pc \in {"idle", "returned"}
    /\ IF FirstWithId(tasks, id) # 0
          THEN /\ tasks' = Pop(tasks, FirstWithId(tasks, id))
               /\ task_ret' = "True"
          ELSE /\ task_ret' = "False"
               /\ UNCHANGED tasks
    /\ UNCHANGED << besides_tasks, now, run_pc, run_task, run_in, run_sent, run_success, run_ret >>

\* TaskManager.update_task: task.update(updates) on the first task with the
\* id, nothing when there is none
UpdateTask(ts, id, updates) ==
    IF FirstWithId(ts, id) = 0
       THEN ts
       ELSE [ts EXCEPT ![FirstWithId(ts, id)] = updates]

\* TaskManager.should_run_task with an every-minute schedule: enabled, and
\* never run or the next minute after last_run has come
ShouldRunTask(task, minute) ==
    /\ task.enabled
    /\ \/ task.last_run = 0
       \/ minute >= task.last_run + 1

Tick ==
    /\ run_pc \in {"idle", "returned"}
    /\ now < MaxClock
    /\ now' = now + 1
    /\ UNCHANGED << besides_tasks, tasks, task_ret, run_pc, run_task, run_in, run_sent, run_success, run_ret >>

\* check_and_execute_tasks: execute_task(checker_config, task) for a task of
\* the loaded configuration that should_run_task accepts
StartExecute(k, input) ==
    /\ run_pc \in {"idle", "returned"}
    /\ k \in 1..Len(tasks)
    /\ ShouldRunTask(tasks[k], now)
    /\ run_pc' = "llm"
    /\ run_task' = tasks[k]
    /\ run_in' = input
    /\ run_sent' = 0
    /\ run_success' = TRUE
    /\ run_ret' = "none"
    /\ UNCHANGED << besides_tasks, tasks, task_ret, now >>

\* execute_task up to the send loop: a failed _initialize_llm or an exception
\* (raises), an empty response, or a response without subject or body
\* returns False
GenerateTemplates ==
    /\ run_pc = "llm"
    /\ IF run_in.llm = "ok"
          THEN /\ run_pc' = "send"
               /\ UNCHANGED run_ret
          ELSE /\ run_pc' = "returned"
               /\ run_ret' = "False"
    /\ UNCHANGED << besides_tasks, tasks, task_ret, now, run_task, run_in, run_sent, run_success >>

\* the send loop's "if not send_email(...): success = False"
SendOutcome_LastWins(success, sent) == sent

SendOutcome(success, sent) == success /\ sent

\* one turn of the loop over task["recipients"]
SendToRecipient ==
    /\ run_pc = "send"
    /\ run_sent < Len(run_in.sends)
    /\ run_sent' = run_sent + 1
    /\ run_success' = SendOutcome(run_success, run_in.sends[run_sent + 1])
    /\ UNCHANGED << besides_tasks, tasks, task_ret, now, run_pc, run_task, run_in, run_ret >>

\* after the loop: on success task["last_run"] = now and
\* update_task(checker id, task id, task); return success
FinishExecute ==
    /\ run_pc = "send"
    /\ run_sent = Len(run_in.sends)
    /\ IF run_success
          THEN /\ run_task' = [run_task EXCEPT !.last_run = now]
               /\ tasks' = UpdateTask(tasks, run_task.id, [run_task EXCEPT !.last_run = now])
               /\ run_ret' = "True"
          ELSE /\ run_ret' = "False"
               /\ UNCHANGED << tasks, run_task >>
    /\ run_pc' = "returned"
    /\ UNCHANGED << besides_tasks, task_ret, now, run_in, run_sent, run_success >>

TaskNext ==
    \/ \E enabled \in BOOLEAN, valid \in BOOLEAN : AddTask(enabled, valid)
    \/ \E id \in 1..(MaxTasks + 1) : DeleteTask(id)
    \/ Tick
    \/ \E k \in 1..MaxTasks, input \in RunInputs : StartExecute(k, input)
    \/ GenerateTemplates
    \/ SendToRecipient
    \/ FinishExecute

TaskSpec == TaskInit /\ [][TaskNext]_vars

\* C28: the task ids of the checker are pairwise distinct, so an id names at
\* most one task
C28_TaskIdsDistinct ==
    \A i \in 1..Len(tasks) : \A j \in 1..Len(tasks) :
        tasks[i].id = tasks[j].id => i = j

\* every send of the run succeeds
AllSent == \A i \in 1..Len(run_in.sends) : run_in.sends[i]

\* the LLM gave a subject and a body and every send succeeds
RunSucceeds == run_in.llm = "ok" /\ AllSent

\* C30: a step of execute_task changes last_run, in the task dict or in the
\* configuration, only in a run whose sends all succeeded; a run with a failed
\* send or an empty or unparsable LLM response returns False and leaves the
\* task as it was, so should_run_task still accepts it
C30_LastRunOnlyOnSuccess ==
    [][ /\ (run_pc \in {"llm", "send"} /\ (tasks' # tasks \/ run_task' # run_task))
           => RunSucceeds
        /\ (run_pc # "returned" /\ run_pc' = "returned" /\ ~RunSucceeds)
           => /\ run_ret' = "False"
              /\ run_task' = run_task
              /\ tasks' = tasks
              /\ ShouldRunTask(run_task', now') ]_vars

\* a run has returned False after a failed send followed by a successful one
C30_Witness ==
    /\ run_pc = "returned"
    /\ run_ret = "False"
    /\ run_in.llm = "ok"
    /\ run_in.sends = << FALSE, TRUE >>
    /\ run_sent = 2
    /\ run_task.last_run = 0
    /\ ShouldRunTask(run_task, now)

\* ---------------------------------------------------- polling the inbox
MaxPolls == 2

MailInit ==
    /\ EngineIdle
    /\ FmtIdle
    /\ FactoryIdle
    /\ ReplyIdle
    /\ SessionIdle
    /\ ConcIdle
    /\ DetectIdle
    /\ CfgFileIdle
    /\ TaskIdle
    /\ MailIdle

\* the ascending sequence of the numbers in a set
RECURSIVE Ascending(_)
Ascending(S) ==
    IF S = {} THEN << >>
    ELSE LET least == CHOOSE m \in S : \A n \in S : m <= n
         IN  << least >> \o Ascending(S \ {least})

\* mail.search(None, "UNSEEN")
SearchUnseen(box) ==
    Ascending({ m \in Mails : box[m].there /\ ~box[m].seen })

\* mail.store(num, "+FLAGS", "\\Seen")
StoreSeen_Skipped(box, m) == box

StoreSeen(box, m) == [box EXCEPT ![m].seen = TRUE]

\* a message arrives in the inbox, at any moment
Deliver(m) ==
    /\ ~inbox[m].there
    /\ inbox' = [inbox EXCEPT ![m].there = TRUE]
    /\ UNCHANGED << besides_mail, polls, poll_pc, poll_ids, attempts, failed >>

\* an exception anywhere in check_emails ends the poll in its except clauses
AbortPoll ==
    /\ poll_pc' = "idle"
    /\ poll_ids' = << >>

\* check_emails: connect, login, select INBOX, search UNSEEN
StartPoll(outcome) ==
    /\ poll_pc = "idle"
    /\ polls < MaxPolls
    /\ polls' = polls + 1
    /\ CASE outcome = "OK" ->
              /\ poll_pc' = "loop"
              /\ poll_ids' = SearchUnseen(inbox)
         [] outcome = "NO" ->
              /\ poll_pc' = "loop"
              /\ poll_ids' = << >>
         [] OTHER -> AbortPoll
    /\ UNCHANGED << besides_mail, inbox, attempts, failed >>

\* mail.fetch(num, "(RFC822)") and the parsing of the message; a server may
\* flag the message \Seen on this fetch by itself (implicit); a result other
\* than OK is logged and the loop goes on
FetchMessage(outcome, implicit) ==
    /\ poll_pc = "loop"
    /\ poll_ids # << >>
    /\ CASE outcome = "OK" ->
              /\ inbox' = IF implicit THEN StoreSeen(inbox, Head(poll_ids)) ELSE inbox
              /\ poll_pc' = "store"
              /\ UNCHANGED poll_ids
         [] outcome = "NO" ->
              /\ poll_ids' = Tail(poll_ids)
              /\ UNCHANGED << inbox, poll_pc >>
         [] OTHER ->
              /\ inbox' = IF implicit THEN StoreSeen(inbox, Head(poll_ids)) ELSE inbox
              /\ AbortPoll
    /\ UNCHANGED << besides_mail, polls, attempts, failed >>

\* mail.store(num, "+FLAGS", "\\Seen"), which flags the message or raises
StoreSeenFlag(outcome) ==
    /\ poll_pc = "store"
    /\ IF outcome = "OK"
          THEN /\ inbox' = StoreSeen(inbox, Head(poll_ids))
               /\ poll_pc' = "reply"
               /\ UNCHANGED poll_ids
          ELSE /\ AbortPoll
               /\ UNCHANGED inbox
    /\ UNCHANGED << besides_mail, polls, attempts, failed >>

\* "if auto_reply and should_reply(parsed_email): handle_email_reply(...)":
\* wanted "yes" calls it, and it returns sent; "no" skips it; should_reply
\* raising ends the poll
AttemptReply(wanted, sent) ==
    /\ poll_pc = "reply"
    /\ CASE wanted = "yes" ->
              /\ attempts' = [attempts EXCEPT ![Head(poll_ids)] = @ + 1]
              /\ failed' = IF sent THEN failed ELSE failed \cup {Head(poll_ids)}
              /\ poll_pc' = "loop"
              /\ poll_ids' = Tail(poll_ids)
         [] wanted = "no" ->
              /\ poll_pc' = "loop"
              /\ poll_ids' = Tail(poll_ids)
              /\ UNCHANGED << attempts, failed >>
         [] OTHER ->
              /\ AbortPoll
              /\ UNCHANGED << attempts, failed >>
    /\ UNCHANGED << besides_mail, inbox, polls >>

\* the loop is over: storage, last_run, close and logout
EndPoll ==
    /\ poll_pc = "loop"
    /\ poll_ids = << >>
    /\ poll_pc' = "idle"
    /\ UNCHANGED << besides_mail, inbox, polls, poll_ids, attempts, failed >>

MailNext ==
    \/ \E m \in Mails : Deliver(m)
    \/ \E outcome \in {"OK", "NO", "raises"} : StartPoll(outcome)
    \/ \E outcome \in {"OK", "NO", "raises"}, implicit \in BOOLEAN :
          FetchMessage(outcome, implicit)
    \/ \E outcome \in {"OK", "raises"} : StoreSeenFlag(outcome)
    \/ \E wanted \in {"yes", "no", "raises"}, sent \in BOOLEAN :
          AttemptReply(wanted, sent)
    \/ EndPoll

MailSpec == MailInit /\ [][MailNext]_vars

====
